---------------------------- MODULE Spec2Model ----------------------------
(***************************************************************************)
(* NoBack: batch background removal.  Two programs are modelled:           *)
(*   version 1  src/noback.py               class App        (synchronous) *)
(*   version 2  src/Version 0002/noback.py  class NoBackApp  (worker       *)
(*                                           thread per run)               *)
(* Paths are nodes of a small directory tree; a file name is the sequence  *)
(* of its characters, so that suffix, stem and lower() are computed as     *)
(* pathlib computes them.                                                  *)
(***************************************************************************)
EXTENDS Integers, Sequences, FiniteSets, TLC

VARIABLES
    version,      \* 1: App (src/noback.py), 2: NoBackApp (Version 0002)
    present,      \* the nodes of the tree that exist on disk
    input_paths,  \* self.input_paths
    output_dir,   \* self.output_dir ("None" when unset)
    made,         \* output directories that exist (created by mkdir)
    files,        \* files[d]: names of the files in output directory d
    run,          \* run[r]: the r-th execution of the batch loop
    nruns,        \* number of batch executions started so far
    lastOp        \* the last collecting user action and its argument

vars == <<version, present, input_paths, output_dir, made, files, run,
          nruns, lastOp>>

(***************************************************************************)
(* Bounds                                                                  *)
(***************************************************************************)
\* files returned by one file dialog
MaxPick == 1
\* paths of one drop payload while collecting
MaxDrop == 2
\* paths of one drop payload while runs are in flight
MaxDropRun == 1
\* executions of the batch loop in one behaviour
MaxRuns == 2

(***************************************************************************)
(* The directory tree.  Children are listed in directory-scan order.       *)
(*   r/ a.png  b.txt  s/ ( t.png/  c.JPG )                                 *)
(* t.png is a DIRECTORY whose name ends in a supported extension.          *)
(***************************************************************************)
Nodes == {"r", "r/a.png", "r/b.txt", "r/s", "r/s/t.png", "r/s/c.JPG"}

Root == "r"

NodeKind ==
    [n \in Nodes |-> IF n \in {"r", "r/s", "r/s/t.png"} THEN "dir" ELSE "file"]

NodeName ==
    [n \in Nodes |->
        CASE n = "r"         -> <<"r">>
          [] n = "r/a.png"   -> <<"a", ".", "p", "n", "g">>
          [] n = "r/b.txt"   -> <<"b", ".", "t", "x", "t">>
          [] n = "r/s"       -> <<"s">>
          [] n = "r/s/t.png" -> <<"t", ".", "p", "n", "g">>
          [] n = "r/s/c.JPG" -> <<"c", ".", "J", "P", "G">>]

ChildrenOf ==
    [n \in Nodes |->
        CASE n = "r"   -> <<"r/a.png", "r/b.txt", "r/s">>
          [] n = "r/s" -> <<"r/s/t.png", "r/s/c.JPG">>
          [] OTHER     -> <<>>]

Parent ==
    [n \in Nodes \ {Root} |->
        CHOOSE d \in Nodes : \E i \in DOMAIN ChildrenOf[d] : ChildrenOf[d][i] = n]

\* a tree: the root plus any set of nodes closed under parent
Trees == {t \in SUBSET Nodes :
            /\ Root \in t
            /\ \A n \in t \ {Root} : Parent[n] \in t}

\* files whose content PIL can decode (b.txt is a text file)
Decodable == {"r/a.png", "r/s/c.JPG"}

\* output directories the user can pick; "ro" cannot be created (mkdir raises)
OutDirs == {"Downloads", "ro"}

Creatable == {"Downloads"}

(***************************************************************************)
(* pathlib, on a tree t (the set of nodes that exist)                      *)
(***************************************************************************)
LowerChar(c) ==
    CASE c = "J" -> "j"
      [] c = "P" -> "p"
      [] c = "G" -> "g"
      [] OTHER   -> c

Lower(s) == [i \in DOMAIN s |-> LowerChar(s[i])]

\* position of the last "." of a name, 0 when there is none (str.rfind + 1)
LastDot(name) ==
    LET dots == {i \in DOMAIN name : name[i] = "."}
    IN  IF dots = {} THEN 0 ELSE CHOOSE i \in dots : \A j \in dots : j <= i

\* PurePath.suffix: from the last dot, unless the dot leads or ends the name
Suffix(name) ==
    LET i == LastDot(name)
    IN  IF 1 < i /\ i < Len(name) THEN SubSeq(name, i, Len(name)) ELSE <<>>

\* PurePath.stem: the name without its suffix
Stem(name) ==
    LET i == LastDot(name)
    IN  IF 1 < i /\ i < Len(name) THEN SubSeq(name, 1, i - 1) ELSE name

SUPPORTED_EXTS ==
    { <<".", "p", "n", "g">>, <<".", "j", "p", "g">>,
      <<".", "j", "p", "e", "g">>, <<".", "w", "e", "b", "p">>,
      <<".", "b", "m", "p">>, <<".", "t", "i", "f", "f">>,
      <<".", "t", "i", "f">> }

\* the paths p with p.suffix.lower() in SUPPORTED_EXTS
SupportedPaths == {p \in Nodes : Lower(Suffix(NodeName[p])) \in SUPPORTED_EXTS}

HasSupportedExt(p) == p \in SupportedPaths

\* the entries of directory d that exist in t, in scan order
Children(t, d) == SelectSeq(ChildrenOf[d], LAMBDA n : n \in t)

\* folder.rglob("*") in t: the entries of the directory, then, for each
\* sub-directory in scan order, its own rglob
RECURSIVE rglob_in(_, _)
rglob_in(t, d) ==
    LET kids == Children(t, d)
        below[i \in 0..Len(kids)] ==
            IF i = 0 THEN <<>>
            ELSE below[i - 1] \o
                 (IF NodeKind[kids[i]] = "dir" THEN rglob_in(t, kids[i]) ELSE <<>>)
    IN  kids \o below[Len(kids)]

\* the test of the generator's if statement
Yielded(p) == HasSupportedExt(p)

\* iter_images_in_dir(folder) in every tree, computed once
ImagesIn ==
    [t \in Trees |-> [d \in Nodes |-> SelectSeq(rglob_in(t, d), Yielded)]]

is_file(p) == p \in present /\ NodeKind[p] = "file"

is_dir(p) == p \in present /\ NodeKind[p] = "dir"

rglob(d) == rglob_in(present, d)

iter_images_in_dir(folder) == ImagesIn[present][folder]

(***************************************************************************)
(* Inputs of the user actions                                              *)
(***************************************************************************)
SeqsUpTo(S, n) == UNION {[1..k -> S] : k \in 1..n}

Injective(s) == \A i, j \in DOMAIN s : s[i] = s[j] => i = j

\* a file dialog returns existing regular files, each once
Picks == {s \in SeqsUpTo({n \in Nodes : is_file(n)}, MaxPick) : Injective(s)}

Folders == {n \in Nodes : is_dir(n)}

\* a drop payload names any paths, existing or not, possibly repeated
Payloads(n) == SeqsUpTo(Nodes, n)

(***************************************************************************)
(* Collecting user actions (the same code in both versions)                *)
(***************************************************************************)
choose_files(picked) ==
    /\ input_paths' = picked
    /\ UNCHANGED <<version, present, output_dir, made, files, run, nruns>>

choose_folder(folder) ==
    /\ input_paths' = iter_images_in_dir(folder)
    /\ UNCHANGED <<version, present, output_dir, made, files, run, nruns>>

\* what one path of the payload contributes to all_files
DropEntry(p) ==
    IF is_file(p) /\ HasSupportedExt(p) THEN <<p>>
    ELSE IF is_dir(p) THEN iter_images_in_dir(p)
    ELSE <<>>

RECURSIVE all_files(_)
all_files(paths) ==
    IF paths = <<>> THEN <<>>
    ELSE all_files(SubSeq(paths, 1, Len(paths) - 1)) \o DropEntry(paths[Len(paths)])

on_drop(paths) ==
    /\ LET found == all_files(paths)
       IN  input_paths' = IF found # <<>> THEN found ELSE input_paths
    /\ UNCHANGED <<version, present, output_dir, made, files, run, nruns>>

choose_output(folder) ==
    /\ output_dir' = folder
    /\ UNCHANGED <<version, present, input_paths, made, files, run, nruns>>

NoOp == [op |-> "none", arg |-> <<>>]

NoRun == [pc |-> "idle", list |-> <<>>, total |-> 0, idx |-> 0,
          dir0 |-> "None", results |-> <<>>, progress |-> <<>>,
          thread |-> "none", uiBy |-> {}]

Runs == 1..MaxRuns

(***************************************************************************)
(* The collector alone, over every tree                                    *)
(***************************************************************************)
InitCollect ==
    /\ version \in {1, 2}
    /\ present \in Trees
    /\ input_paths = <<>>
    /\ output_dir = IF version = 1 THEN "None" ELSE "Downloads"
    /\ made = {}
    /\ files = [d \in OutDirs |-> {}]
    /\ run = [r \in Runs |-> NoRun]
    /\ nruns = 0
    /\ lastOp = NoOp

CollectFiles ==
    \E picked \in Picks :
        choose_files(picked) /\ lastOp' = [op |-> "files", arg |-> picked]

CollectFolder ==
    \E folder \in Folders :
        choose_folder(folder) /\ lastOp' = [op |-> "folder", arg |-> <<folder>>]

CollectDrop ==
    \E paths \in Payloads(MaxDrop) :
        on_drop(paths) /\ lastOp' = [op |-> "drop", arg |-> paths]

NextCollect == CollectFiles \/ CollectFolder \/ CollectDrop

SpecCollect == InitCollect /\ [][NextCollect]_vars

(***************************************************************************)
(* process_image                                                           *)
(***************************************************************************)
NOBG == <<"_", "n", "o", "b", "g", ".", "p", "n", "g">>

\* out_dir.mkdir(parents=True, exist_ok=True) returns without raising
mkdir_ok(d) == d \in Creatable

\* Image.open(in_path).convert("RGBA") returns without raising
open_ok(p) == is_file(p) /\ p \in Decodable

\* out_dir / f"{base}_nobg.png" with base = in_path.stem
OutName(p) == Stem(NodeName[p]) \o NOBG

\* process_image(p, d) returns a path (TRUE) or raises (FALSE)
process_image_ok(p, d) == mkdir_ok(d) /\ open_ok(p)

\* the output directories that exist after process_image(p, d)
MadeAfter(md, d) == IF mkdir_ok(d) THEN md \cup {d} ELSE md

\* a variant that never overwrites: a taken name gets a "1" appended
FilesAfter_unique(fl, p, d) ==
    IF process_image_ok(p, d)
    THEN [fl EXCEPT ![d] = @ \cup {IF OutName(p) \in fl[d]
                                   THEN OutName(p) \o <<"1">>
                                   ELSE OutName(p)}]
    ELSE fl

\* the output files after process_image(p, d): out.save overwrites
FilesAfter(fl, p, d) ==
    IF process_image_ok(p, d) THEN [fl EXCEPT ![d] = @ \cup {OutName(p)}]
    ELSE fl

\* the log line of one item: "✓ name → out" or "✗ Erro em name"
ItemResult(p, d) == [item |-> p, ok |-> process_image_ok(p, d), dir |-> d]

(***************************************************************************)
(* Version 1: App.process, the whole loop on the event thread              *)
(***************************************************************************)
\* the output files after the loop has handled list[1..k] with directory d
RECURSIVE FilesAfterAll(_, _, _, _)
FilesAfterAll(fl, list, k, d) ==
    IF k = 0 THEN fl
    ELSE FilesAfter(FilesAfterAll(fl, list, k - 1, d), list[k], d)

\* progress.configure(maximum=N, value=0), then value=idx after each item
BarValues(n) == <<<<0, n>>>> \o [i \in 1..n |-> <<i, n>>]

process ==
    /\ version = 1
    /\ \/ /\ input_paths = <<>>          \* showwarning, return
          /\ UNCHANGED vars
       \/ /\ input_paths # <<>>
          /\ output_dir = "None"         \* showwarning, return
          /\ UNCHANGED vars
       \/ /\ input_paths # <<>>
          /\ output_dir # "None"
          /\ nruns < MaxRuns
          /\ LET n == Len(input_paths)
                 d == output_dir
             IN  /\ run' = [run EXCEPT ![nruns + 1] =
                        [pc |-> "done", list |-> input_paths, total |-> n,
                         idx |-> n, dir0 |-> d,
                         results |-> [i \in 1..n |-> ItemResult(input_paths[i], d)],
                         progress |-> BarValues(n),
                         thread |-> "ui", uiBy |-> {"ui"}]]
                 /\ files' = FilesAfterAll(files, input_paths, n, d)
                 /\ made' = MadeAfter(made, d)
          /\ nruns' = nruns + 1
          /\ UNCHANGED <<version, present, input_paths, output_dir, lastOp>>

(***************************************************************************)
(* Version 2: NoBackApp.start_process and the worker thread                *)
(***************************************************************************)
start_process ==
    /\ version = 2
    /\ \/ /\ input_paths = <<>>          \* showwarning, return
          /\ UNCHANGED vars
       \/ /\ input_paths # <<>>
          /\ nruns < MaxRuns             \* self.output_dir is never falsy here
          /\ run' = [run EXCEPT ![nruns + 1] =
                        [NoRun EXCEPT !.pc = "spawned", !.dir0 = output_dir,
                                      !.thread = "worker"]]
          /\ nruns' = nruns + 1
          /\ UNCHANGED <<version, present, input_paths, output_dir, made,
                         files, lastOp>>

\* set_progress(fraction) called by the thread running run r
set_progress(rec, fraction) ==
    [rec EXCEPT !.progress = Append(@, fraction), !.uiBy = @ \cup {rec.thread}]

\* append_log of an item's result line, called by the thread running run r
append_result(rec, res) ==
    [rec EXCEPT !.results = Append(@, res), !.uiBy = @ \cup {rec.thread}]

\* a variant that ends without the last set_progress(1.0)
Conclude_silent(rec) == [rec EXCEPT !.pc = "done"]

\* the lines after the loop: append_log("Concluído!"), set_progress(1.0)
Conclude(rec) == [set_progress(rec, <<1, 1>>) EXCEPT !.pc = "done"]

\* lines 279-281: total = len(self.input_paths), log, set_progress(0.0)
process_all_total(r) ==
    /\ run[r].pc = "spawned"
    /\ run' = [run EXCEPT ![r] =
                  [set_progress(run[r], <<0, 1>>) EXCEPT
                      !.total = Len(input_paths), !.pc = "counted"]]
    /\ UNCHANGED <<version, present, input_paths, output_dir, made, files,
                   nruns, lastOp>>

\* line 282: the for statement evaluates self.input_paths, once
process_all_iter(r) ==
    /\ run[r].pc = "counted"
    /\ IF input_paths = <<>>
       THEN /\ run' = [run EXCEPT ![r] = Conclude(run[r])]
       ELSE /\ run' = [run EXCEPT ![r] =
                          [run[r] EXCEPT !.list = input_paths, !.pc = "loop"]]
    /\ UNCHANGED <<version, present, input_paths, output_dir, made, files,
                   nruns, lastOp>>

\* lines 283-289 for one item, and lines 290-291 after the last one.
\* idx / total raises ZeroDivisionError when total = 0: nothing catches it
\* and the thread ends.
process_all_item(r) ==
    /\ run[r].pc = "loop"
    /\ LET k    == run[r].idx + 1
           p    == run[r].list[k]
           d    == output_dir
           rec1 == [append_result(run[r], ItemResult(p, d)) EXCEPT !.idx = k]
           rec2 == set_progress(rec1, <<k, rec1.total>>)
       IN  /\ files' = FilesAfter(files, p, d)
           /\ made' = MadeAfter(made, d)
           /\ IF rec1.total = 0
              THEN /\ run' = [run EXCEPT ![r] = [rec1 EXCEPT !.pc = "crashed"]]
              ELSE IF k = Len(rec1.list)
              THEN /\ run' = [run EXCEPT ![r] = Conclude(rec2)]
              ELSE /\ run' = [run EXCEPT ![r] = rec2]
    /\ UNCHANGED <<version, present, input_paths, output_dir, nruns, lastOp>>

(***************************************************************************)
(* The application: user actions in any order, interleaved with the        *)
(* worker threads of version 2                                             *)
(***************************************************************************)
Init ==
    /\ version \in {1, 2}
    /\ present = Nodes
    /\ input_paths = <<>>
    /\ output_dir = IF version = 1 THEN "None" ELSE "Downloads"
    /\ made = {}
    /\ files = [d \in OutDirs |-> {}]
    /\ run = [r \in Runs |-> NoRun]
    /\ nruns = 0
    /\ lastOp = NoOp

UserFiles == \E picked \in Picks : choose_files(picked) /\ UNCHANGED lastOp

UserFolder == \E folder \in Folders : choose_folder(folder) /\ UNCHANGED lastOp

UserDrop == \E paths \in Payloads(MaxDropRun) : on_drop(paths) /\ UNCHANGED lastOp

UserOutput == \E folder \in OutDirs : choose_output(folder) /\ UNCHANGED lastOp

Worker ==
    \E r \in Runs :
        process_all_total(r) \/ process_all_iter(r) \/ process_all_item(r)

Next ==
    \/ UserFiles
    \/ UserFolder
    \/ UserDrop
    \/ UserOutput
    \/ process
    \/ start_process
    \/ Worker

Spec == Init /\ [][Next]_vars

(***************************************************************************)
(* Vocabulary of the properties                                            *)
(***************************************************************************)
\* a progress value <<num, den>> read as the fraction num / den
FracLess(f, g) == f[1] * g[2] < g[1] * f[2]

FracIsZero(f) == f[1] = 0 /\ f[2] > 0

FracIsOne(f) == f[1] = f[2] /\ f[2] > 0

Started(r) == run[r].pc # "idle"

Ended(r) == run[r].pc \in {"done", "crashed"}

Complete(r) == run[r].pc = "done" /\ run[r].list # <<>>

\* the run's item results name the items of its work list, in order
ResultsInOrder(r) ==
    /\ Len(run[r].results) = Len(run[r].list)
    /\ \A i \in DOMAIN run[r].results : run[r].results[i].item = run[r].list[i]

Last(s) == s[Len(s)]

(***************************************************************************)
(* C1  As claimed: a complete run over N items reports progress exactly N  *)
(* times, strictly increasing, ending at 1.0, and N item results in order. *)
(***************************************************************************)
C1_ExactlyNProgressReports ==
    \A r \in Runs : Complete(r) =>
        /\ Len(run[r].progress) = Len(run[r].list)
        /\ \A i \in 1..(Len(run[r].progress) - 1) :
               FracLess(run[r].progress[i], run[r].progress[i + 1])
        /\ FracIsOne(Last(run[r].progress))
        /\ ResultsInOrder(r)

(***************************************************************************)
(* C1  As amended: a complete run over N items reports the value 0 once    *)
(* before the first item, then one value after each item, these N + 1      *)
(* values strictly increasing; the worker of version 2 then reports 1.0    *)
(* once more (N + 2 reports; N + 1 in version 1).  The last value reported *)
(* is 1.0 and there are exactly N item results, in work-list order.        *)
(***************************************************************************)
C1_ProgressReports ==
    \A r \in Runs : Complete(r) =>
        LET n     == Len(run[r].list)
            extra == IF run[r].thread = "worker" THEN 1 ELSE 0
        IN  /\ Len(run[r].progress) = n + 1 + extra
            /\ FracIsZero(run[r].progress[1])
            /\ \A i \in 1..n :
                   FracLess(run[r].progress[i], run[r].progress[i + 1])
            /\ FracIsOne(Last(run[r].progress))
            /\ ResultsInOrder(r)

\* a worker thread has completed a run over a three-item list
C1_Witness ==
    \E r \in Runs :
        /\ Complete(r)
        /\ run[r].thread = "worker"
        /\ Len(run[r].list) = 3
        /\ Len(run[r].results) = 3

(***************************************************************************)
(* C2  Failure isolation: a run that has ended has attempted every item of *)
(* its list once and in order, reported a failure for each raising item    *)
(* and a success for each other, and its progress has reached 1.0.         *)
(***************************************************************************)
C2_FailureIsolation ==
    \A r \in Runs : Ended(r) =>
        /\ ResultsInOrder(r)
        /\ \A i \in DOMAIN run[r].results :
               run[r].results[i].ok =
                   process_image_ok(run[r].results[i].item, run[r].results[i].dir)
        /\ run[r].progress # <<>>
        /\ FracIsOne(Last(run[r].progress))

(***************************************************************************)
(* C3  At most one execution of the batch loop is between its start and    *)
(* its end.                                                                *)
(***************************************************************************)
C3_OneRunAtATime ==
    Cardinality({r \in Runs : run[r].pc \in {"counted", "loop"}}) <= 1

(***************************************************************************)
(* C4  When the output directory cannot be created no item gets a per-item *)
(* result: the run aborts before the first item.                           *)
(***************************************************************************)
C4_SetupFailureAborts ==
    \A r \in Runs : \A i \in DOMAIN run[r].results :
        mkdir_ok(run[r].results[i].dir)

(***************************************************************************)
(* C5  Every item of a run is written into the directory that was selected *)
(* when the run started.                                                   *)
(***************************************************************************)
C5_OutputDirFixed ==
    \A r \in Runs : \A i \in DOMAIN run[r].results :
        run[r].results[i].dir = run[r].dir0

(***************************************************************************)
(* C6  Every progress fraction of a run equals (items attempted so far) /  *)
(* (items of the list the run iterates) and lies in [0, 1].                *)
(***************************************************************************)
C6_ProgressFraction ==
    \A r \in Runs : run[r].list # <<>> =>
        \A j \in DOMAIN run[r].progress :
            LET n         == Len(run[r].list)
                attempted == IF j - 1 < n THEN j - 1 ELSE n
                f         == run[r].progress[j]
            IN  /\ f[1] * n = attempted * f[2]
                /\ 0 <= f[1]
                /\ f[1] <= f[2]

(***************************************************************************)
(* C7  The log and the progress bar are changed by the event thread only,  *)
(* and the batch loop runs on another thread.                              *)
(***************************************************************************)
C7_UiThreadOnly ==
    \A r \in Runs : Started(r) =>
        /\ run[r].thread # "ui"
        /\ run[r].uiBy \subseteq {"ui"}

(***************************************************************************)
(* C8  choose_folder yields exactly the regular files under the folder     *)
(* with a supported extension, in traversal order; no directory.           *)
(***************************************************************************)
C8_OnlyRegularFiles ==
    lastOp.op = "folder" =>
        input_paths = SelectSeq(rglob(lastOp.arg[1]),
                                LAMBDA p : is_file(p) /\ HasSupportedExt(p))

(***************************************************************************)
(* C9  The work list built by on_drop holds no path twice.                 *)
(***************************************************************************)
C9_DropDeduplicated ==
    (lastOp.op = "drop" /\ all_files(lastOp.arg) # <<>>) => Injective(input_paths)

(***************************************************************************)
(* C10  Each successful item is written to stem + "_nobg.png" and nothing  *)
(* else is written; and once a run over a work list into a directory is    *)
(* done, a step of another run over the same list into that directory      *)
(* leaves the directory's set of file names as it was.                     *)
(***************************************************************************)
NewResults(r) ==
    {run'[r].results[i] : i \in (Len(run[r].results) + 1)..Len(run'[r].results)}

NamedAfterStem(r) ==
    /\ \A d \in OutDirs :
           files'[d] \ files[d] \subseteq
               {Stem(NodeName[e.item]) \o NOBG :
                    e \in {x \in NewResults(r) : x.ok /\ x.dir = d}}
    /\ \A e \in NewResults(r) :
           e.ok => (Stem(NodeName[e.item]) \o NOBG) \in files'[e.dir]

SameRunBefore(r, q) ==
    /\ q # r
    /\ run[q].pc = "done"
    /\ run[q].list = run'[r].list
    /\ \A i \in DOMAIN run[q].results : run[q].results[i].dir = output_dir
    /\ \A e \in NewResults(r) : e.dir = output_dir

C10_Step ==
    \A r \in Runs : NewResults(r) # {} =>
        /\ NamedAfterStem(r)
        /\ (\E q \in Runs : SameRunBefore(r, q)) => files' = files

C10_Idempotent == [][C10_Step]_vars

\* two runs over the same list, both into Downloads, are done; the list
\* holds c.JPG, whose output is there under the name c_nobg.png
C10_Witness ==
    \E r, q \in Runs :
        /\ r # q
        /\ run[r].pc = "done" /\ run[q].pc = "done"
        /\ run[r].list = run[q].list
        /\ \E i \in DOMAIN run[r].list : run[r].list[i] = "r/s/c.JPG"
        /\ \A i \in DOMAIN run[r].results : run[r].results[i].dir = "Downloads"
        /\ \A i \in DOMAIN run[q].results : run[q].results[i].dir = "Downloads"
        /\ Len(run[r].results) = Len(run[r].list)
        /\ Len(run[q].results) = Len(run[q].list)
        /\ <<"c", "_", "n", "o", "b", "g", ".", "p", "n", "g">> \in files["Downloads"]

=============================================================================
